---------------------------- MODULE Spec2Model ----------------------------
(***************************************************************************)
(* Model of src/src/main.cpp (ColorTestSDL2): a dropped bitmap is          *)
(* quantized to palette indices (findClosestPaletteEntry), darkened by     *)
(* updateDarkLevel and tinted by updateUnderwater in response to key       *)
(* events polled by handleEvents.                                          *)
(*                                                                         *)
(* A surface is a record [w, h, pixels]; pixels is the sequence of the     *)
(* first w*h bytes of the surface memory, the only bytes the program's     *)
(* loops read or write (pixels[i+1] here is pixels[i] in the source).      *)
(* A texture is the copy of a surface made by                              *)
(* SDL_CreateTextureFromSurface.  Calls into SDL that can fail only by     *)
(* resource exhaustion are taken to succeed.                               *)
(***************************************************************************)
EXTENDS Integers, Sequences, FiniteSets, TLC

VARIABLES
    pc,              \* position of the control thread
    palette,         \* the colour table behind indexed_palette
    palette_alloc,   \* indexed_palette is still allocated
    render_surface,  \* base index surface, or NULL
    lit_surface,     \* lit/final index surface, or NULL
    render_texture,  \* texture shown by the main loop, or NULL
    source,          \* the bitmap decoded for the drop being handled, or NULL
    err,             \* result of loadNewBMP for the drop being handled
    event,           \* type of the last event handled
    exitRequested,
    darkLevel,
    underWater,
    allocBase        \* base surfaces created and not yet freed

vars == <<pc, palette, palette_alloc, render_surface, lit_surface,
          render_texture, source, err, event, exitRequested, darkLevel,
          underWater, allocBase>>

NULL == [null |-> TRUE]

(***************************************************************************)
(* Bounds of the model.                                                    *)
(***************************************************************************)
MaxPixels == 2      \* a dropped bitmap has at most this many pixels
PaletteSize == 2    \* entries of the palette table
MaxSurfaces == 2    \* base surfaces that can be alive at once

UINT8_MAX == 255

Byte == 0..UINT8_MAX

(***************************************************************************)
(* IEEE-754 double arithmetic of findClosestPaletteEntry.                  *)
(* Every double the function computes is a non-negative multiple of 2^-56  *)
(* below 2^16, so it is held exactly as a 4-limb little-endian number in   *)
(* base 2^20 counting units of 2^-56.  Each product and each sum is        *)
(* rounded on its own to 53 significant bits, ties to even (the expression *)
(* evaluated without fused multiply-add).                                  *)
(***************************************************************************)
LimbBase == 1048576
MantissaBits == 53

\* the double nearest to 0.30 is 5404319552844595 * 2^-54
Weight_R == <<838860, 838860, 19660, 0>>
\* the double nearest to 0.59 is 5314247560297185 * 2^-53
Weight_G == <<251656, 251658, 38666, 0>>
\* the double nearest to 0.11 is 7926335344172073 * 2^-56
Weight_B == <<1006633, 1006632, 7208, 0>>

\* lowestDistance = INFINITY: above every distance the loop computes
INFINITY == <<0, 0, 0, LimbBase>>

Pow2(n) == 2^n

RECURSIVE BitLen(_)
BitLen(n) == IF n = 0 THEN 0 ELSE 1 + BitLen(n \div 2)

\* exact product of a limb number by an integer up to 256
MulSmall(x, d) ==
    LET p1 == x[1] * d
        p2 == x[2] * d + (p1 \div LimbBase)
        p3 == x[3] * d + (p2 \div LimbBase)
        p4 == x[4] * d + (p3 \div LimbBase)
    IN  <<p1 % LimbBase, p2 % LimbBase, p3 % LimbBase, p4>>

\* exact sum of two limb numbers
AddLimbs(x, y) ==
    LET s1 == x[1] + y[1]
        s2 == x[2] + y[2] + (s1 \div LimbBase)
        s3 == x[3] + y[3] + (s2 \div LimbBase)
        s4 == x[4] + y[4] + (s3 \div LimbBase)
    IN  <<s1 % LimbBase, s2 % LimbBase, s3 % LimbBase, s4>>

NumBits(x) ==
    IF x[4] # 0 THEN 60 + BitLen(x[4])
    ELSE IF x[3] # 0 THEN 40 + BitLen(x[3])
    ELSE IF x[2] # 0 THEN 20 + BitLen(x[2])
    ELSE BitLen(x[1])

\* round to nearest double, ties to even; the bits dropped are all in limb 1
RoundDouble(x) ==
    LET n == NumBits(x)
        s == IF n > MantissaBits THEN n - MantissaBits ELSE 0
    IN  IF s = 0 THEN x
        ELSE LET q == x[1] \div Pow2(s)
                 r == x[1] % Pow2(s)
                 half == Pow2(s - 1)
                 up == IF r > half \/ (r = half /\ q % 2 = 1) THEN 1 ELSE 0
             IN  AddLimbs(<<0, x[2], x[3], x[4]>>, <<(q + up) * Pow2(s), 0, 0, 0>>)

\* exact product by an int below 2^16 (the int converts to double exactly)
MulInt(x, n) ==
    AddLimbs(MulSmall(MulSmall(x, n \div 256), 256), MulSmall(x, n % 256))

DoubleMul(n, weight) == RoundDouble(MulInt(weight, n))

DoubleAdd(x, y) == RoundDouble(AddLimbs(x, y))

DoubleLess(x, y) ==
    \/ x[4] < y[4]
    \/ x[4] = y[4] /\ x[3] < y[3]
    \/ x[4] = y[4] /\ x[3] = y[3] /\ x[2] < y[2]
    \/ x[4] = y[4] /\ x[3] = y[3] /\ x[2] = y[2] /\ x[1] < y[1]

\* (p - c) * (p - c) in int arithmetic
SquaredDiff(p, c) == (p - c) * (p - c)

\* the weighted distance of one palette entry, evaluated left to right
Distance(p_color, color) ==
    DoubleAdd(
        DoubleAdd(DoubleMul(SquaredDiff(p_color.r, color.r), Weight_R),
                  DoubleMul(SquaredDiff(p_color.g, color.g), Weight_G)),
        DoubleMul(SquaredDiff(p_color.b, color.b), Weight_B))

(***************************************************************************)
(* findClosestPaletteEntry: the loop over the palette, i from 0.           *)
(***************************************************************************)
\* the comparison written with <=: a later entry at equal distance replaces
\* the current best
Closer_orEqual(distance, lowestDistance) == ~DoubleLess(lowestDistance, distance)

\* if(distance < lowestDistance)
Closer(distance, lowestDistance) == DoubleLess(distance, lowestDistance)

RECURSIVE ClosestLoop(_, _, _, _, _)
ClosestLoop(pal, color, i, closestIndex, lowestDistance) ==
    IF i >= Len(pal) THEN closestIndex
    ELSE LET p_color == pal[i + 1]
             distance == Distance(p_color, color)
         IN  IF Closer(distance, lowestDistance)
             THEN ClosestLoop(pal, color, i + 1, i % 256, distance)
             ELSE ClosestLoop(pal, color, i + 1, closestIndex, lowestDistance)

findClosestPaletteEntry(pal, color) == ClosestLoop(pal, color, 0, 0, INFINITY)

(***************************************************************************)
(* Inputs: the bitmaps SDL_LoadBMP can return and the palette tables.      *)
(***************************************************************************)
\* pixel bytes as stored, blue first: black, and (r,g,b) = (2,3,1)
PixelBytes == {<<0, 0, 0>>, <<1, 3, 2>>}

\* palette colours: the second pixel colour, matched exactly, and a colour at
\* the same exact distance from black (6.62) as the first
PalColors == {[r |-> 2, g |-> 3, b |-> 1],
              [r |-> 1, g |-> 2, b |-> 6]}

\* bitmaps of a single row
Dims == {<<n, 1>> : n \in 1..MaxPixels}

Flatten(ps) == [i \in 1..(3 * Len(ps)) |-> ps[((i - 1) \div 3) + 1][((i - 1) % 3) + 1]]

Bitmaps24 ==
    UNION {{[w |-> d[1], h |-> d[2], bpp |-> 24, pixels |-> Flatten(ps)] :
                ps \in [1..(d[1] * d[2]) -> PixelBytes]} : d \in Dims}

\* a decoded bitmap of another depth; its bytes are never read
Bitmaps32 ==
    {[w |-> d[1], h |-> d[2], bpp |-> 32,
      pixels |-> [i \in 1..(4 * d[1] * d[2]) |-> 0]] : d \in Dims}

Bitmaps == Bitmaps24 \cup Bitmaps32

Palettes == [1..PaletteSize -> PalColors]

(***************************************************************************)
(* convertSurfaceToIndex: the checks, then one index per source pixel.     *)
(* The source bytes of pixel i are blue, green, red at offset 3*i.         *)
(***************************************************************************)
SourceColor(source_pixels, i) ==
    LET offset == i * 3
    IN  [r |-> source_pixels[offset + 2 + 1],
         g |-> source_pixels[offset + 1 + 1],
         b |-> source_pixels[offset + 1]]

\* The graph of findClosestPaletteEntry over the palettes and the colours of
\* the bitmaps above, evaluated once; the copy loop reads its results here.
SourceColors == {SourceColor(p, 0) : p \in PixelBytes}

ClosestEntryTable ==
    {<<pal, color, findClosestPaletteEntry(pal, color)>> :
        pal \in Palettes, color \in SourceColors}

ClosestEntryOf(pal, color) ==
    (CHOOSE t \in ClosestEntryTable : t[1] = pal /\ t[2] = color)[3]

\* dest is the fresh 8-bit surface; the result is the error code and the
\* pixels of dest afterwards
convertSurfaceToIndex(pal, src, dest) ==
    LET source_count == src.w * src.h
        dest_count == dest.w * dest.h
    IN  IF src.bpp # 24 THEN [err |-> 1, pixels |-> dest.pixels]
        ELSE IF source_count # dest_count THEN [err |-> 1, pixels |-> dest.pixels]
        ELSE [err |-> 0,
              pixels |-> [i \in 1..source_count |->
                  ClosestEntryOf(pal, SourceColor(src.pixels, i - 1))]]

\* SDL_CreateRGBSurfaceWithFormat(0, w, h, 8, SDL_PIXELFORMAT_INDEX8): zeroed
CreateIndexSurface(w, h) == [w |-> w, h |-> h, pixels |-> [i \in 1..(w * h) |-> 0]]

(***************************************************************************)
(* The per-pixel transforms of updateDarkLevel and updateUnderwater, in    *)
(* uint8_t arithmetic.                                                     *)
(***************************************************************************)
RECURSIVE BitOr(_, _)
BitOr(a, b) ==
    IF a = 0 THEN b
    ELSE IF b = 0 THEN a
    ELSE (IF a % 2 = 1 \/ b % 2 = 1 THEN 1 ELSE 0) + 2 * BitOr(a \div 2, b \div 2)

\* the offset added without the saturation test
DarkenPixel_wrap(color, level) == (color + (32 * level)) % 256

DarkenPixel(color, level) ==
    IF (level = 8) \/ (color > UINT8_MAX - (32 * level))
    THEN 255
    ELSE (color + (32 * level)) % 256

\* the mask added instead of or-ed
TintPixel_add(color, flag) ==
    IF flag THEN (color + 16) % 256 ELSE color

TintPixel(color, flag) ==
    IF flag THEN BitOr(color, 16) ELSE color

(***************************************************************************)
(* The program.                                                            *)
(***************************************************************************)
\* the globals after initSDL2 succeeded, at the top of the main loop
Init ==
    /\ pc = "poll"
    /\ palette \in Palettes
    /\ palette_alloc = TRUE
    /\ render_surface = NULL
    /\ lit_surface = NULL
    /\ render_texture = NULL
    /\ source = NULL
    /\ err = 0
    /\ event = "none"
    /\ exitRequested = FALSE
    /\ darkLevel = 0
    /\ underWater = FALSE
    /\ allocBase = 0

\* case SDL_QUIT
QuitEvent ==
    /\ pc = "poll"
    /\ event' = "quit"
    /\ exitRequested' = TRUE
    /\ UNCHANGED <<pc, palette, palette_alloc, render_surface, lit_surface,
                   render_texture, source, err, darkLevel, underWater, allocBase>>

\* case SDL_DROPFILE: err = loadNewBMP(event.drop.file), which decodes the
\* file and runs renderNewSurface on the result
DropFile ==
    /\ pc = "poll"
    /\ event' = "drop"
    /\ pc' = "dropped"
    /\ \E temp \in Bitmaps \cup {NULL} :
        /\ source' = temp
        /\ IF temp = NULL
           THEN /\ err' = 1
                /\ UNCHANGED <<render_surface, render_texture, allocBase>>
           ELSE /\ allocBase < MaxSurfaces
                /\ LET fresh == CreateIndexSurface(temp.w, temp.h)
                       conv == convertSurfaceToIndex(palette, temp, fresh)
                       surface == [fresh EXCEPT !.pixels = conv.pixels]
                   IN  /\ render_surface' = surface
                       /\ allocBase' = allocBase + 1
                       /\ IF conv.err # 0
                          THEN /\ err' = 1
                               /\ UNCHANGED render_texture
                          ELSE /\ err' = 0
                               /\ render_texture' = surface
    /\ UNCHANGED <<palette, palette_alloc, lit_surface, exitRequested,
                   darkLevel, underWater>>

\* the rest of the SDL_DROPFILE case: the error is reported, the decoded
\* bitmap is gone, and the loop polls the next event
DropReturn ==
    /\ pc = "dropped"
    /\ pc' = "poll"
    /\ source' = NULL
    /\ err' = 0
    /\ UNCHANGED <<palette, palette_alloc, render_surface, lit_surface,
                   render_texture, event, exitRequested, darkLevel, underWater,
                   allocBase>>

\* the decrement without its darkLevel > 0 test
KeyUp_noClamp ==
    /\ pc = "poll"
    /\ event' = "up"
    /\ darkLevel' = darkLevel - 1
    /\ pc' = "updateDarkLevel"
    /\ UNCHANGED <<palette, palette_alloc, render_surface, lit_surface,
                   render_texture, source, err, exitRequested, underWater, allocBase>>

\* case SDL_SCANCODE_UP
KeyUp ==
    /\ pc = "poll"
    /\ event' = "up"
    /\ darkLevel' = IF darkLevel > 0 THEN darkLevel - 1 ELSE darkLevel
    /\ pc' = "updateDarkLevel"
    /\ UNCHANGED <<palette, palette_alloc, render_surface, lit_surface,
                   render_texture, source, err, exitRequested, underWater, allocBase>>

\* the increment without the two update calls
KeyDown_noRefresh ==
    /\ pc = "poll"
    /\ event' = "down"
    /\ darkLevel' = IF darkLevel < 8 THEN darkLevel + 1 ELSE darkLevel
    /\ UNCHANGED <<pc, palette, palette_alloc, render_surface, lit_surface,
                   render_texture, source, err, exitRequested, underWater, allocBase>>

\* case SDL_SCANCODE_DOWN
KeyDown ==
    /\ pc = "poll"
    /\ event' = "down"
    /\ darkLevel' = IF darkLevel < 8 THEN darkLevel + 1 ELSE darkLevel
    /\ pc' = "updateDarkLevel"
    /\ UNCHANGED <<palette, palette_alloc, render_surface, lit_surface,
                   render_texture, source, err, exitRequested, underWater, allocBase>>

\* the toggle calling updateUnderwater alone
KeySpace_tintOnly ==
    /\ pc = "poll"
    /\ event' = "space"
    /\ underWater' = ~underWater
    /\ pc' = "updateUnderwater"
    /\ UNCHANGED <<palette, palette_alloc, render_surface, lit_surface,
                   render_texture, source, err, exitRequested, darkLevel, allocBase>>

\* case SDL_SCANCODE_SPACE
KeySpace ==
    /\ pc = "poll"
    /\ event' = "space"
    /\ underWater' = ~underWater
    /\ pc' = "updateDarkLevel"
    /\ UNCHANGED <<palette, palette_alloc, render_surface, lit_surface,
                   render_texture, source, err, exitRequested, darkLevel, allocBase>>

\* the lit surface updateDarkLevel builds from the base surface
DarkenSurface(surface, level) ==
    [w |-> surface.w, h |-> surface.h,
     pixels |-> [i \in 1..(surface.w * surface.h) |->
                    DarkenPixel(surface.pixels[i], level)]]

\* the lit surface after updateUnderwater's loop over its own pixels
TintSurface(surface, flag) ==
    [surface EXCEPT !.pixels =
        [i \in 1..(surface.w * surface.h) |-> TintPixel(surface.pixels[i], flag)]]

\* the lit surface created on the first call only and kept afterwards
updateDarkLevel_reuse ==
    /\ pc = "updateDarkLevel"
    /\ pc' = "updateUnderwater"
    /\ IF render_surface = NULL \/ lit_surface # NULL
       THEN UNCHANGED <<lit_surface, render_texture>>
       ELSE /\ lit_surface' = DarkenSurface(render_surface, darkLevel)
            /\ render_texture' = lit_surface'
    /\ UNCHANGED <<palette, palette_alloc, render_surface, source, err, event,
                   exitRequested, darkLevel, underWater, allocBase>>

\* updateDarkLevel(), the first call of every key handler
updateDarkLevel ==
    /\ pc = "updateDarkLevel"
    /\ pc' = "updateUnderwater"
    /\ IF render_surface = NULL
       THEN UNCHANGED <<lit_surface, render_texture>>
       ELSE /\ lit_surface' = DarkenSurface(render_surface, darkLevel)
            /\ render_texture' = lit_surface'
    /\ UNCHANGED <<palette, palette_alloc, render_surface, source, err, event,
                   exitRequested, darkLevel, underWater, allocBase>>

\* updateUnderwater(), the second call of every key handler; reading the
\* size of a missing lit surface ends the program
updateUnderwater ==
    /\ pc = "updateUnderwater"
    /\ IF render_surface = NULL
       THEN /\ pc' = "poll"
            /\ UNCHANGED <<lit_surface, render_texture>>
       ELSE IF lit_surface = NULL
       THEN /\ pc' = "crashed"
            /\ UNCHANGED <<lit_surface, render_texture>>
       ELSE /\ pc' = "poll"
            /\ lit_surface' = TintSurface(lit_surface, underWater)
            /\ render_texture' = lit_surface'
    /\ UNCHANGED <<palette, palette_alloc, render_surface, source, err, event,
                   exitRequested, darkLevel, underWater, allocBase>>

\* the main loop sees exitRequested and runs quitSDL2: the current base
\* surface, the texture and the palette are handed back to SDL; whether
\* SDL_FreePalette releases the palette depends on the references the
\* surfaces still alive hold on it
MainExit ==
    /\ pc = "poll"
    /\ exitRequested
    /\ pc' = "done"
    /\ allocBase' = IF render_surface # NULL THEN allocBase - 1 ELSE allocBase
    /\ \E released \in BOOLEAN : palette_alloc' = ~released
    /\ UNCHANGED <<palette, render_surface, lit_surface, render_texture, source,
                   err, event, exitRequested, darkLevel, underWater>>

Next ==
    \/ QuitEvent
    \/ DropFile
    \/ DropReturn
    \/ KeyUp
    \/ KeyDown
    \/ KeySpace
    \/ updateDarkLevel
    \/ updateUnderwater
    \/ MainExit

Spec == Init /\ [][Next]_vars

(***************************************************************************)
(* The key pipeline on an arbitrary base buffer: an image is loaded whose  *)
(* quantization is any single index of a full 256-entry palette, or one of *)
(* the two three-pixel buffers of the specification's scenarios.  The      *)
(* palette plays no part after quantization.                               *)
(***************************************************************************)
IndexSurfaces ==
    {[w |-> 1, h |-> 1, pixels |-> <<v>>] : v \in Byte}
        \cup {[w |-> 3, h |-> 1, pixels |-> <<5, 250, 0>>],
              [w |-> 3, h |-> 1, pixels |-> <<0, 16, 255>>]}

InitPipeline ==
    /\ pc = "poll"
    /\ palette = [i \in 1..PaletteSize |-> [r |-> 2, g |-> 3, b |-> 1]]
    /\ palette_alloc = TRUE
    /\ render_surface \in IndexSurfaces
    /\ render_texture = render_surface
    /\ lit_surface = NULL
    /\ source = NULL
    /\ err = 0
    /\ event = "drop"
    /\ exitRequested = FALSE
    /\ darkLevel = 0
    /\ underWater = FALSE
    /\ allocBase = 1

NextPipeline ==
    \/ QuitEvent
    \/ KeyUp
    \/ KeyDown
    \/ KeySpace
    \/ updateDarkLevel
    \/ updateUnderwater
    \/ MainExit

SpecPipeline == InitPipeline /\ [][NextPipeline]_vars

(***************************************************************************)
(* Properties.  The expected values are written from the specification's   *)
(* formulas in unbounded integer arithmetic.                               *)
(***************************************************************************)
Bit(v, k) == (v \div (2^k)) % 2

ExpectedDarkness(v, level) ==
    IF level = 8 \/ v > 255 - 32 * level THEN 255 ELSE v + 32 * level

ExpectedTint(v, flag) == IF flag /\ Bit(v, 4) = 0 THEN v + 16 ELSE v

ExpectedDisplay(base, level, flag) ==
    [i \in 1..(base.w * base.h) |->
        ExpectedTint(ExpectedDarkness(base.pixels[i], level), flag)]

\* 100 * (0.30*dR^2 + 0.59*dG^2 + 0.11*dB^2) as an exact integer
ExactDistance(p_color, color) ==
    30 * (p_color.r - color.r) * (p_color.r - color.r)
    + 59 * (p_color.g - color.g) * (p_color.g - color.g)
    + 11 * (p_color.b - color.b) * (p_color.b - color.b)

\* the distances the program computes for the colours of the model
DistanceTable ==
    {<<p_color, color, Distance(p_color, color)>> :
        p_color \in PalColors, color \in SourceColors}

DistanceOf(p_color, color) ==
    (CHOOSE t \in DistanceTable : t[1] = p_color /\ t[2] = color)[3]

AllBit4(surface) ==
    \A i \in 1..(surface.w * surface.h) : Bit(surface.pixels[i], 4) = 1

PaletteIndexes == 0..(Len(palette) - 1)

\* C1: after a successful drop the displayed buffer is the new image
\* quantized, darkened at the current level and tinted at the current flag.
C1_DropShowsPipeline ==
    (pc = "dropped" /\ err = 0) =>
        /\ render_texture # NULL
        /\ render_texture.pixels =
             [i \in 1..(source.w * source.h) |->
                TintPixel(
                    DarkenPixel(
                        findClosestPaletteEntry(palette, SourceColor(source.pixels, i - 1)),
                        darkLevel),
                    underWater)]

\* C2: a drop that fails leaves the base buffer, the lit buffer, the
\* displayed buffer, the darkness level and the underwater flag as they were.
C2_FailedDropLeavesState ==
    [][(pc = "poll" /\ pc' = "dropped" /\ err' # 0) =>
          /\ render_surface' = render_surface
          /\ lit_surface' = lit_surface
          /\ render_texture' = render_texture
          /\ darkLevel' = darkLevel
          /\ underWater' = underWater]_vars

\* C3: once an up or down key has been handled with an image loaded, the
\* displayed buffer is the base buffer darkened at the current level and then
\* tinted at the current flag, whatever was displayed before; the handler
\* leaves the base buffer as it was.
C3_DarknessKeysRedisplay ==
    /\ [](pc = "poll" /\ event \in {"up", "down"} /\ render_surface # NULL =>
            /\ render_texture # NULL
            /\ render_texture.w = render_surface.w
            /\ render_texture.h = render_surface.h
            /\ render_texture.pixels =
                 ExpectedDisplay(render_surface, darkLevel, underWater))
    /\ [][(event' \in {"up", "down"} /\ (pc # "poll" \/ pc' # "poll")) =>
             render_surface' = render_surface]_vars

C3_Witness ==
    /\ pc = "poll"
    /\ event = "down"
    /\ render_surface # NULL
    /\ allocBase = 2
    /\ darkLevel = 2
    /\ underWater
    /\ render_texture.pixels = ExpectedDisplay(render_surface, 2, TRUE)

\* C4 as stated: a toggle runs the tint pass alone, so while the space key is
\* handled the darkening step leaves the lit buffer as it is and an index of
\* the lit buffer that has bit 4 set keeps it.
C4_ToggleOnlyTints ==
    [][(event = "space" /\ pc \in {"updateDarkLevel", "updateUnderwater"}
            /\ render_surface # NULL /\ lit_surface # NULL) =>
          /\ pc = "updateDarkLevel" => lit_surface' = lit_surface
          /\ AllBit4(lit_surface) => AllBit4(lit_surface')]_vars

\* C4 amended: a toggle runs the darkening pass and then the tint pass: the
\* lit buffer is rebuilt from the base buffer, so once the space key has been
\* handled the displayed buffer is the base darkened at the current level and
\* tinted only if the flag is now on.
C4_ToggleRebuilds ==
    /\ [](pc = "poll" /\ event = "space" /\ render_surface # NULL =>
            /\ lit_surface # NULL
            /\ lit_surface.pixels =
                 ExpectedDisplay(render_surface, darkLevel, underWater)
            /\ render_texture = lit_surface)
    /\ [][(event = "space" /\ pc = "updateDarkLevel" /\ render_surface # NULL) =>
             lit_surface'.pixels = ExpectedDisplay(render_surface, darkLevel, FALSE)]_vars

C4_Witness ==
    /\ pc = "poll"
    /\ event = "space"
    /\ ~underWater
    /\ render_surface # NULL
    /\ render_texture # NULL
    /\ \E i \in 1..(render_texture.w * render_texture.h) :
          Bit(render_texture.pixels[i], 4) = 0

\* C5: at most one base buffer is allocated at any time, and once the
\* program has quit no base buffer, lit buffer or palette is still allocated.
C5_BuffersReleased ==
    /\ allocBase <= 1
    /\ pc = "done" =>
          /\ allocBase = 0
          /\ lit_surface = NULL
          /\ ~palette_alloc

\* C6: the darkening pass gives 255 at level 8 or when v > 255 - 32*level and
\* v + 32*level otherwise, never wrapping; it is the identity at level 0 and
\* constant 255 at level 8, and maps <<5, 250, 0>> to <<69, 255, 64>> at
\* level 2.
C6_BrightnessMapper ==
    (pc = "updateUnderwater" /\ render_surface # NULL) =>
        /\ lit_surface # NULL
        /\ \A i \in 1..(render_surface.w * render_surface.h) :
              LET v == render_surface.pixels[i]
                  out == lit_surface.pixels[i]
              IN  /\ out = ExpectedDarkness(v, darkLevel)
                  /\ out \in 0..255
                  /\ out >= v
                  /\ darkLevel = 0 => out = v
                  /\ darkLevel = 8 => out = 255
        /\ (render_surface.pixels = <<5, 250, 0>> /\ darkLevel = 2) =>
              lit_surface.pixels = <<69, 255, 64>>

C6_Witness ==
    /\ pc = "updateUnderwater"
    /\ render_surface # NULL
    /\ render_surface.pixels = <<5, 250, 0>>
    /\ darkLevel = 2
    /\ lit_surface.pixels = <<69, 255, 64>>

\* C7 as stated: every index written by a successful drop is the lowest index
\* among the palette entries whose exact weighted distance to the pixel is
\* minimal.
C7_LowestExactMinimiser ==
    (pc = "dropped" /\ err = 0) =>
        \A i \in 1..(source.w * source.h) :
            LET color == SourceColor(source.pixels, i - 1)
                k == render_surface.pixels[i]
            IN  /\ k \in PaletteIndexes
                /\ \A j \in PaletteIndexes :
                      /\ ExactDistance(palette[j + 1], color)
                            >= ExactDistance(palette[k + 1], color)
                      /\ j < k => ExactDistance(palette[j + 1], color)
                                     > ExactDistance(palette[k + 1], color)
                /\ (\E j \in PaletteIndexes : palette[j + 1] = color) =>
                      /\ palette[k + 1] = color
                      /\ \A j \in PaletteIndexes : j < k => palette[j + 1] # color

\* C7 amended: every index written by a successful drop is the lowest index
\* among the entries whose distance as computed in double precision is
\* minimal; no entry has a strictly lower exact distance, and a pixel equal
\* to a palette entry gets the lowest index holding that colour.
C7_LowestComputedMinimiser ==
    (pc = "dropped" /\ err = 0) =>
        \A i \in 1..(source.w * source.h) :
            LET color == SourceColor(source.pixels, i - 1)
                k == render_surface.pixels[i]
            IN  /\ k \in PaletteIndexes
                /\ \A j \in PaletteIndexes :
                      /\ ~DoubleLess(DistanceOf(palette[j + 1], color),
                                     DistanceOf(palette[k + 1], color))
                      /\ j < k => DoubleLess(DistanceOf(palette[k + 1], color),
                                             DistanceOf(palette[j + 1], color))
                      /\ ExactDistance(palette[j + 1], color)
                            >= ExactDistance(palette[k + 1], color)
                /\ (\E j \in PaletteIndexes : palette[j + 1] = color) =>
                      /\ palette[k + 1] = color
                      /\ \A j \in PaletteIndexes : j < k => palette[j + 1] # color

\* a pixel for which a lower entry ties exactly with the entry returned
C7_Witness ==
    /\ pc = "dropped"
    /\ err = 0
    /\ \E i \in 1..(source.w * source.h) :
          LET color == SourceColor(source.pixels, i - 1)
              k == render_surface.pixels[i]
          IN  \E j \in PaletteIndexes :
                 /\ j < k
                 /\ ExactDistance(palette[j + 1], color)
                       = ExactDistance(palette[k + 1], color)
                 /\ DoubleLess(DistanceOf(palette[k + 1], color),
                               DistanceOf(palette[j + 1], color))

\* C8: the darkness level stays in 0..8; an up key lowers it by one unless it
\* is 0, a down key raises it by one unless it is 8, and no other step
\* changes it.
C8_DarkLevelClamped ==
    /\ [](darkLevel \in 0..8)
    /\ [][/\ (pc = "poll" /\ pc' = "updateDarkLevel" /\ event' = "up") =>
                darkLevel' = IF darkLevel = 0 THEN 0 ELSE darkLevel - 1
          /\ (pc = "poll" /\ pc' = "updateDarkLevel" /\ event' = "down") =>
                darkLevel' = IF darkLevel = 8 THEN 8 ELSE darkLevel + 1
          /\ ~(pc = "poll" /\ pc' = "updateDarkLevel" /\ event' \in {"up", "down"}) =>
                darkLevel' = darkLevel]_vars

C8_Witness ==
    /\ pc = "updateDarkLevel"
    /\ event = "down"
    /\ darkLevel = 8
    /\ lit_surface # NULL
    /\ lit_surface.pixels = ExpectedDisplay(render_surface, 8, underWater)

\* C9: the tint pass with the flag on sets bit 4 of every index and keeps the
\* other bits, with the flag off keeps the index, and a second pass changes
\* nothing; <<0, 16, 255>> with the flag on becomes <<16, 16, 255>>.
C9_TintToggler ==
    [][(pc = "updateUnderwater" /\ render_surface # NULL /\ lit_surface # NULL) =>
          /\ \A i \in 1..(lit_surface.w * lit_surface.h) :
                LET v == lit_surface.pixels[i]
                    out == lit_surface'.pixels[i]
                IN  /\ out \in 0..255
                    /\ underWater =>
                          /\ Bit(out, 4) = 1
                          /\ \A k \in (0..7) \ {4} : Bit(out, k) = Bit(v, k)
                    /\ ~underWater => out = v
                    /\ TintPixel(out, underWater) = out
          /\ (lit_surface.pixels = <<0, 16, 255>> /\ underWater) =>
                lit_surface'.pixels = <<16, 16, 255>>]_vars

C9_Witness ==
    /\ pc = "poll"
    /\ event = "space"
    /\ underWater
    /\ darkLevel = 0
    /\ render_surface.pixels = <<0, 16, 255>>
    /\ lit_surface # NULL
    /\ lit_surface.pixels = <<16, 16, 255>>

\* C10: whenever updateUnderwater gets past its base-buffer test, the lit
\* buffer exists and has the width and height of the current base buffer.
C10_TintSeesFreshLit ==
    (pc = "updateUnderwater" /\ render_surface # NULL) =>
        /\ lit_surface # NULL
        /\ lit_surface.w = render_surface.w
        /\ lit_surface.h = render_surface.h

\* a key handler under way after a second image of another size was loaded
C10_Witness ==
    /\ pc = "updateUnderwater"
    /\ render_surface # NULL
    /\ lit_surface # NULL
    /\ allocBase = 2
    /\ render_texture.w = render_surface.w
    /\ render_texture.w * render_texture.h = 2

=============================================================================
